---- MODULE Spec2Model ----
(***************************************************************************)
(* A model of moc-rest: the route registry and request dispatcher of       *)
(* moc/rest.py and the currying helper of moc/functional.py.               *)
(*                                                                         *)
(* Python values are modelled as follows.  A str that travels as a body    *)
(* is a sequence of tokens (the empty str is << >>).  A URL path is the    *)
(* sequence of its segments.  A path pattern is a sequence of parts, each  *)
(* a literal segment or a named placeholder.  An exception is a record of  *)
(* its class name, the base class an except clause recognises it by, its   *)
(* status code and its message.                                            *)
(***************************************************************************)
EXTENDS Integers, Sequences, FiniteSets, TLC

VARIABLES
    url_map,    \* rest._url_map: the rules, in registration order
    request,    \* the request of the latest request_handler call
    result,     \* what the latest call (rest_call or request_handler) gave back
    calls,      \* the handler invocations made by the latest request_handler call
    reads,      \* the reads it issued on wsgi.input
    pc,         \* concurrent dispatch: each invocation's position in request_handler
    req,        \* concurrent dispatch: each invocation's request
    frame,      \* concurrent dispatch: the local variables of the invocations
    resp,       \* concurrent dispatch: each invocation's outcome
    map0,       \* concurrent dispatch: the registry when the invocation began
    cfn,        \* currying: the function handed to curry
    cur,        \* currying: the object the latest call gave back
    supplied    \* currying: the positional arguments supplied so far

restVars == <<url_map, request, result, calls, reads>>
concVars == <<pc, req, frame, resp, map0>>
curryVars == <<cfn, cur, supplied>>
vars == <<url_map, request, result, calls, reads, pc, req, frame, resp, map0,
          cfn, cur, supplied>>

(***************************************************************************)
(* Bounds of the model.                                                    *)
(***************************************************************************)
MaxRoutes == 2      \* registrations made in one run
MaxBody == 2        \* tokens on a request's body stream

Min(a, b) == IF a < b THEN a ELSE b

(***************************************************************************)
(* Exceptions and responses.                                               *)
(***************************************************************************)
Exc(cls, base, code, msg) ==
    [cls |-> cls, base |-> base, status_code |-> code, message |-> msg]

NoExc == Exc("-", "-", 0, "-")

\* class APIError(Exception): status_code = 400
APIError(msg) == Exc("APIError", "APIError", 400, msg)

\* class ValidationError(APIError): inherits status_code
ValidationError(msg) == Exc("ValidationError", "APIError", 400, msg)

\* A subclass of APIError, defined by a user of the library, that overrides
\* status_code.
ConflictError(msg) == Exc("ConflictError", "APIError", 409, msg)

\* werkzeug's HTTP exceptions, each a response of its own code.
NotFound == Exc("NotFound", "HTTPException", 404, "Not Found")
MethodNotAllowed == Exc("MethodNotAllowed", "HTTPException", 405, "Method Not Allowed")
Forbidden == Exc("Forbidden", "HTTPException", 403, "Forbidden")

\* Exceptions that are neither.
OtherError(cls) == Exc(cls, "Exception", 0, cls)

Response(body, status) ==
    [kind |-> "response", status |-> status, body |-> body, exc |-> NoExc]

Raised(e) ==
    [kind |-> "raise", status |-> 0, body |-> << >>, exc |-> e]

\* json.dumps({'type': ..., 'msg': ...}): the text of the JSON object.
JsonError(type, msg) == <<"{", "type", type, "msg", msg, "}">>

\* json.dumps of a list of strings.
JsonList(items) == <<"[">> \o items \o <<"]">>

\* An HTTPException returned as the response: its code, its standard page.
HttpErrorResponse(e) == Response(<<"<html>", e.message>>, e.status_code)

\* APIError.response
responseBaseName(e) ==
    Response(JsonError("APIError", e.message), e.status_code)

response(e) ==
    Response(JsonError(e.cls, e.message), e.status_code)

(***************************************************************************)
(* Values a handler returns.                                               *)
(***************************************************************************)
PyNone == [t |-> "None", s |-> << >>, i |-> 0]
PyStr(s) == [t |-> "str", s |-> s, i |-> 0]
PyInt(i) == [t |-> "int", s |-> << >>, i |-> i]

\* Python's truth value: None, '' and 0 are false.
Truthy(v) ==
    CASE v.t = "None" -> FALSE
      [] v.t = "str" -> v.s # << >>
      [] v.t = "int" -> v.i # 0

Returns(v) == [kind |-> "return", value |-> v, exc |-> NoExc]
Raises(e) == [kind |-> "raise", value |-> PyNone, exc |-> e]

(***************************************************************************)
(* Requests.                                                               *)
(***************************************************************************)
Methods == {"GET", "POST"}

Paths == { <<"func", "alice", "bob">>, <<"func", "foo">>, <<"func", "alice">>,
           <<"some_error">> }

\* What a client may send: the body stream holds a prefix of Wire.
Wire == <<"bonnie", "clyde", "eve", "mallory">>

Streams == { SubSeq(Wire, 1, n) : n \in 0..MaxBody }

\* The Content-Length header: absent ({}) or one declared length.
NoLength == {}
Lengths == {NoLength} \cup { {n} : n \in 0..(MaxBody + 1) }

Requests ==
    [method : Methods, path : Paths, content_length : Lengths, input : Streams]

NoRequest ==
    [method |-> "-", path |-> << >>, content_length |-> NoLength, input |-> << >>]

(***************************************************************************)
(* Path patterns.                                                          *)
(***************************************************************************)
Lit(s) == [var |-> FALSE, name |-> s]
Var(s) == [var |-> TRUE, name |-> s]

PatFuncFooBar == <<Lit("func"), Var("foo"), Var("bar")>>  \* '/func/<foo>/<bar>'
PatFuncFoo == <<Lit("func"), Lit("foo")>>                 \* '/func/foo'
PatFuncVar == <<Lit("func"), Var("foo")>>                 \* '/func/<foo>'
PatSomeError == <<Lit("some_error")>>                     \* '/some_error'

Arguments(pattern) ==
    { pattern[k].name : k \in { j \in DOMAIN pattern : pattern[j].var } }

\* Rule(path, endpoint=f, methods=[method])
Rule(path, f, method) == [path |-> path, endpoint |-> f, method |-> method]

\* Whether a URL path matches a pattern: segment by segment; a placeholder takes
\* any one segment.
PathMatches(pattern, path) ==
    /\ Len(pattern) = Len(path)
    /\ \A k \in DOMAIN pattern : ~pattern[k].var => pattern[k].name = path[k]

PathValuesSwapped(pattern, path) ==
    [v \in Arguments(pattern) |->
        path[Len(pattern) + 2
             - (CHOOSE k \in DOMAIN pattern : pattern[k].var /\ pattern[k].name = v)]]

\* The values of a match: each placeholder's name bound to its URL segment.
PathValues(pattern, path) ==
    [v \in Arguments(pattern) |->
        path[CHOOSE k \in DOMAIN pattern : pattern[k].var /\ pattern[k].name = v]]

\* The order in which the map tries its rules: rules without placeholders first,
\* then the order of registration (the sort is stable).
TriedBefore(map, i, j) ==
    LET si == Arguments(map[i].path) = {}
        sj == Arguments(map[j].path) = {}
    IN  \/ si /\ ~sj
        \/ (si <=> sj) /\ i <= j

NoMatch(e) ==
    [kind |-> "raise", rule |-> 0, endpoint |-> "-", values |-> << >>, exc |-> e]

match_always404(map, method, path) ==
    LET byPath == { i \in DOMAIN map : PathMatches(map[i].path, path) }
        byBoth == { i \in byPath : map[i].method = method }
    IN  IF byBoth = {}
        THEN NoMatch(NotFound)
        ELSE LET i == CHOOSE x \in byBoth : \A y \in byBoth : TriedBefore(map, x, y)
             IN  [kind |-> "ok", rule |-> i, endpoint |-> map[i].endpoint,
                  values |-> PathValues(map[i].path, path), exc |-> NoExc]

\* adapter.match(): the first rule, in the order tried, that matches the path and
\* the method; MethodNotAllowed when rules match the path but none the method;
\* NotFound when no rule matches the path.
match(map, method, path) ==
    LET byPath == { i \in DOMAIN map : PathMatches(map[i].path, path) }
        byBoth == { i \in byPath : map[i].method = method }
    IN  IF byBoth # {}
        THEN LET i == CHOOSE x \in byBoth : \A y \in byBoth : TriedBefore(map, x, y)
             IN  [kind |-> "ok", rule |-> i, endpoint |-> map[i].endpoint,
                  values |-> PathValues(map[i].path, path), exc |-> NoExc]
        ELSE IF byPath # {}
             THEN NoMatch(MethodNotAllowed)
             ELSE NoMatch(NotFound)

(***************************************************************************)
(* Handlers: the functions registered with rest_call.  func, foo and       *)
(* some_error are those of the test suite; the others are handlers a user  *)
(* of the library may write, one for each way a handler can end.           *)
(***************************************************************************)
Handlers ==
    {"func", "foo", "some_error", "echo", "noop", "zero", "invalid", "conflict",
     "forbidden", "lookup"}

\* The parameters a handler declares.
Params(f) ==
    CASE f = "func" -> {"foo", "bar", "request_body"}
      [] f = "lookup" -> {"foo", "request_body"}
      [] OTHER -> {"request_body"}

\* json.loads on a body: the two-token text "bonnie clyde" stands for the object
\* {"bar": "bonnie", "baz": "clyde"}; no other body of the model is JSON.
IsJsonObject(body) == Len(body) = 2

\* f(**kwargs): a call whose keywords are not the parameters is a TypeError.
Apply(f, kwargs) ==
    IF DOMAIN kwargs # Params(f)
    THEN Raises(OtherError("TypeError"))
    ELSE CASE f = "func" ->
                Returns(PyStr(JsonList(<<kwargs["foo"], kwargs["bar"]>>)))
           [] f = "foo" ->
                IF IsJsonObject(kwargs["request_body"])
                THEN Returns(PyStr(JsonList(kwargs["request_body"])))
                ELSE Raises(OtherError("ValueError"))
           [] f = "some_error" -> Raises(APIError("Basic test of the APIError code."))
           [] f = "echo" -> Returns(PyStr(kwargs["request_body"]))
           [] f = "noop" -> Returns(PyNone)
           [] f = "zero" -> Returns(PyInt(0))
           [] f = "invalid" -> Raises(ValidationError("invalid body"))
           [] f = "conflict" -> Raises(ConflictError("already exists"))
           [] f = "forbidden" -> Raises(Forbidden)
           [] f = "lookup" -> Returns(PyStr(<<kwargs["foo"]>>))

\* The routes a run may register: those of the test suite under either method,
\* the other handlers under one method each, and two routes on '/func/<foo>',
\* one of them bound to a handler that does not declare foo.
Routes ==
    { Rule(PatFuncFooBar, "func", m) : m \in Methods }
    \cup { Rule(PatFuncFoo, "foo", m) : m \in Methods }
    \cup { Rule(PatSomeError, "some_error", m) : m \in Methods }
    \cup { Rule(PatFuncFoo, f, "POST") : f \in {"echo", "invalid", "conflict"} }
    \cup { Rule(PatFuncFoo, f, "GET") : f \in {"noop", "zero", "forbidden"} }
    \cup { Rule(PatFuncVar, f, "GET") : f \in {"lookup", "foo"} }

(***************************************************************************)
(* request_handler.                                                        *)
(***************************************************************************)
\* wsgi.input.read(n): at most n tokens, fewer when the stream ends first.
read(input, n) == SubSeq(input, 1, Min(n, Len(input)))

ReadBodyUnbounded(r) ==
    [body |-> r.input, reads |-> <<[n |-> Len(r.input), got |-> r.input]>>]

ReadBodyNever(r) == [body |-> << >>, reads |-> << >>]

\* values['request_body']: '' when the content length is absent, else one read
\* of the declared length.
ReadBody(r) ==
    IF r.content_length = NoLength
    THEN [body |-> << >>, reads |-> << >>]
    ELSE LET n == CHOOSE x \in r.content_length : TRUE
         IN  [body |-> read(r.input, n),
              reads |-> <<[n |-> n, got |-> read(r.input, n)]>>]

\* values['request_body'] = ...
SetItem(d, k, v) == [x \in (DOMAIN d) \cup {k} |-> IF x = k THEN v ELSE d[x]]

ResponseBodyInverted(v) == IF Truthy(v) THEN << >> ELSE v.s

\* if not response_body: response_body = ""
ResponseBody(v) == IF ~Truthy(v) THEN << >> ELSE v.s

except_everything(e) ==
    CASE e.base = "APIError" -> response(e)
      [] OTHER -> HttpErrorResponse(e)

\* except APIError, e: return e.response()
\* except HTTPException, e: return e
\* anything else leaves request_handler as the exception it is.
except_clauses(e) ==
    CASE e.base = "APIError" -> response(e)
      [] e.base = "HTTPException" -> HttpErrorResponse(e)
      [] OTHER -> Raised(e)

\* One whole call of request_handler on the registry `map`: its outcome, the
\* handler invocations it made and the reads it issued.
request_handler(map, r) ==
    LET m == match(map, r.method, r.path)
    IN  IF m.kind # "ok"
        THEN [result |-> except_clauses(m.exc), calls |-> << >>, reads |-> << >>]
        ELSE LET rd == ReadBody(r)
                 values == SetItem(m.values, "request_body", rd.body)
                 out == Apply(m.endpoint, values)
             IN  [result |-> IF out.kind = "return"
                             THEN Response(ResponseBody(out.value), 200)
                             ELSE except_clauses(out.exc),
                  calls |-> <<[f |-> m.endpoint, kwargs |-> values]>>,
                  reads |-> rd.reads]

(***************************************************************************)
(* The sequential specification: registrations and dispatches, one at a    *)
(* time.                                                                   *)
(***************************************************************************)
Registered == [kind |-> "registered", status |-> 0, body |-> << >>, exc |-> NoExc]
NoResult == [kind |-> "none", status |-> 0, body |-> << >>, exc |-> NoExc]

Threads == {1, 2}

\* The local variables of one request_handler invocation.
NoFrame == [f |-> "-", values |-> << >>, response_body |-> PyNone]

ConcIdle ==
    /\ pc = [t \in Threads |-> "idle"]
    /\ req = [t \in Threads |-> NoRequest]
    /\ frame = [t \in Threads |-> NoFrame]
    /\ resp = [t \in Threads |-> NoResult]
    /\ map0 = [t \in Threads |-> << >>]

\* A Python function of the currying model: how many positional parameters it
\* declares and how many of them, the last ones, have defaults.
NoFunction == [nargs |-> 0, ndefaults |-> 0, defined |-> FALSE]
NoObject == [kind |-> "none", n |-> 0, bound |-> << >>, value |-> << >>, exc |-> "-"]

CurryIdle ==
    /\ cfn = NoFunction
    /\ cur = NoObject
    /\ supplied = << >>

Init ==
    /\ url_map = << >>
    /\ request = NoRequest
    /\ result = NoResult
    /\ calls = << >>
    /\ reads = << >>
    /\ ConcIdle
    /\ CurryIdle

\* @rest_call(method, path) applied to f: the rule is added to the map.
rest_call(method, path, f) ==
    /\ request = NoRequest
    /\ url_map' = Append(url_map, Rule(path, f, method))
    /\ result' = Registered
    /\ request' = NoRequest
    /\ calls' = << >>
    /\ reads' = << >>
    /\ UNCHANGED <<concVars, curryVars>>

\* request_handler(request), run to its end.
Dispatch(r) ==
    LET o == request_handler(url_map, r)
    IN  /\ request = NoRequest
        /\ request' = r
        /\ result' = o.result
        /\ calls' = o.calls
        /\ reads' = o.reads
        /\ UNCHANGED <<url_map, concVars, curryVars>>

\* wsgi_handler hands the response to the server (or the exception leaves it),
\* and the next request may come.
Handled ==
    /\ request # NoRequest
    /\ request' = NoRequest
    /\ result' = NoResult
    /\ calls' = << >>
    /\ reads' = << >>
    /\ UNCHANGED <<url_map, concVars, curryVars>>

Register ==
    /\ Len(url_map) < MaxRoutes
    /\ \E rule \in Routes : rest_call(rule.method, rule.path, rule.endpoint)

Serve == \E r \in Requests : Dispatch(r)

Next == Register \/ Serve \/ Handled

Spec == Init /\ [][Next]_vars

(***************************************************************************)
(* Properties of the sequential specification.                             *)
(***************************************************************************)
\* The rules of the registry that match the latest request's path, and those
\* that match its method too.
ByPath == { i \in DOMAIN url_map : PathMatches(url_map[i].path, request.path) }
ByBoth == { i \in ByPath : url_map[i].method = request.method }

\* What the invoked handler does when called directly with the arguments the
\* dispatcher passed.
Outcome == Apply(calls[1].f, calls[1].kwargs)

\* C1: a path that matches no route gives 404; a path that matches routes, none
\* of them for the request's method, gives 405; neither invokes a handler, and a
\* handler is invoked only when a route matches both path and method.
C1_RoutingErrors ==
    request # NoRequest =>
        /\ ByPath = {} =>
             result.kind = "response" /\ result.status = 404 /\ calls = << >>
        /\ (ByPath # {} /\ ByBoth = {}) =>
             result.kind = "response" /\ result.status = 405 /\ calls = << >>
        /\ calls # << >> => ByBoth # {}

C1_Witness ==
    /\ request # NoRequest
    /\ ByPath # {}
    /\ ByBoth = {}
    /\ result.status = 405

\* C2: a handler that raises an APIError (or a subclass) gives a response, not an
\* exception: its status is the error's status_code (400 for APIError and
\* ValidationError) and its body the JSON object of the error's class name and
\* message.
C2_APIErrorResponse ==
    (calls # << >> /\ Outcome.kind = "raise" /\ Outcome.exc.base = "APIError") =>
        /\ result.kind = "response"
        /\ result.status = Outcome.exc.status_code
        /\ result.body =
             <<"{", "type", Outcome.exc.cls, "msg", Outcome.exc.message, "}">>
        /\ Outcome.exc.cls \in {"APIError", "ValidationError"} => result.status = 400

C2_Witness ==
    /\ calls # << >>
    /\ calls[1].f = "invalid"
    /\ result.status = 400
    /\ result.body = <<"{", "type", "ValidationError", "msg", "invalid body", "}">>

\* C3: no two routes of the registry share the same (method, path pattern).
C3_NoDuplicateRoutes ==
    \A i, j \in DOMAIN url_map :
        i # j => ~(/\ url_map[i].method = url_map[j].method
                   /\ url_map[i].path = url_map[j].path)

\* C4: a dispatch reads at most content-length tokens: with no content length it
\* reads nothing and passes the empty string; with one (zero too) it issues a
\* single read of the declared length and passes exactly what the read gave.
C4_BoundedRead ==
    request # NoRequest =>
        /\ calls = << >> => reads = << >>
        /\ request.content_length = NoLength =>
             /\ reads = << >>
             /\ calls # << >> => calls[1].kwargs["request_body"] = << >>
        /\ \A n \in request.content_length :
             calls # << >> =>
                /\ Len(reads) = 1
                /\ reads[1].n = n
                /\ Len(reads[1].got) <= n
                /\ reads[1].got = SubSeq(request.input, 1, Len(reads[1].got))
                /\ calls[1].kwargs["request_body"] = reads[1].got

C4_Witness ==
    /\ calls # << >>
    /\ request.content_length = {1}
    /\ Len(request.input) = 2
    /\ calls[1].kwargs["request_body"] = <<"bonnie">>

\* C5: a request that matches a route invokes exactly one handler, that of a
\* matching route, with exactly the pattern's placeholder names, each bound to
\* the URL segment at its place, plus request_body.
C5_HandlerArguments ==
    (request # NoRequest /\ ByBoth # {}) =>
        /\ Len(calls) = 1
        /\ \E i \in ByBoth :
             LET pattern == url_map[i].path
             IN  /\ calls[1].f = url_map[i].endpoint
                 /\ DOMAIN calls[1].kwargs = Arguments(pattern) \cup {"request_body"}
                 /\ \A k \in DOMAIN pattern :
                      pattern[k].var =>
                         calls[1].kwargs[pattern[k].name] = request.path[k]

C5_Witness ==
    /\ calls # << >>
    /\ calls[1].f = "func"
    /\ request.path = <<"func", "alice", "bob">>
    /\ calls[1].kwargs["foo"] = "alice"
    /\ calls[1].kwargs["bar"] = "bob"

\* C6: a handler that returns gives a 200 response: with an empty body when the
\* value is falsy (None, '', 0), else with the value itself as the body.
C6_NormalReturn ==
    (calls # << >> /\ Outcome.kind = "return") =>
        /\ result.kind = "response"
        /\ result.status = 200
        /\ Outcome.value \in {PyNone, PyStr(<< >>), PyInt(0)} => result.body = << >>
        /\ Outcome.value \notin {PyNone, PyStr(<< >>), PyInt(0)} =>
             result.body = Outcome.value.s

C6_Witness ==
    /\ calls # << >>
    /\ calls[1].f = "noop"
    /\ result.status = 200
    /\ result.body = << >>

\* The handler called directly, as the test suite does: with the path's values
\* under the pattern's names and the whole body of the request.
Direct(i) ==
    LET pattern == url_map[i].path
        args == [v \in Arguments(pattern) \cup {"request_body"} |->
                    IF v = "request_body"
                    THEN request.input
                    ELSE request.path[CHOOSE k \in DOMAIN pattern :
                                         pattern[k].var /\ pattern[k].name = v]]
    IN  Apply(url_map[i].endpoint, args)

\* The declared content length covers the whole body stream.
WholeBodyDeclared ==
    \/ request.input = << >>
    \/ \E n \in request.content_length : n >= Len(request.input)

C8_Original ==
    (calls # << >> /\ Outcome.kind = "raise" /\ Outcome.exc.base # "APIError") =>
        result.kind = "raise"

\* C8, amended: what the handler raises that is neither an APIError nor an
\* HTTPException leaves request_handler as that exception, and no response is
\* returned; an HTTPException raised by the handler is returned as the response.
C8_Propagation ==
    (calls # << >> /\ Outcome.kind = "raise") =>
        /\ Outcome.exc.base \notin {"APIError", "HTTPException"} =>
             result.kind = "raise" /\ result.exc = Outcome.exc
        /\ Outcome.exc.base = "HTTPException" =>
             result.kind = "response" /\ result.status = Outcome.exc.status_code

C8_Witness ==
    /\ calls # << >>
    /\ calls[1].f = "foo"
    /\ result.kind = "raise"
    /\ result.exc.cls = "ValueError"

(***************************************************************************)
(* The concurrent specification: the server runs request_handler on        *)
(* several threads at once, each invocation advancing statement by         *)
(* statement, while rest_call may still be applied.                        *)
(***************************************************************************)
MaxLate == 1        \* registrations made after serving has begun

\* The registry of the test suite's three routes.
ServedMap ==
    << Rule(PatFuncFooBar, "func", "GET"),
       Rule(PatFuncFoo, "foo", "POST"),
       Rule(PatSomeError, "some_error", "GET") >>

\* Routes registered while requests are served.
LateRoutes ==
    { Rule(PatFuncVar, "lookup", "GET"),
      Rule(PatFuncFoo, "echo", "POST"),
      Rule(PatFuncFoo, "noop", "GET") }

\* The requests served concurrently: with no content length, or with the
\* length of the whole body.
ConcRequests ==
    { r \in Requests :
        /\ r.input = SubSeq(Wire, 1, MaxBody)
        /\ r.content_length \in {NoLength, {MaxBody}} }

FrameOfShared(t) == 1

\* Where the local variables of invocation t live: in its own frame.
FrameOf(t) == t

InitConc ==
    /\ url_map = ServedMap
    /\ request = NoRequest
    /\ result = NoResult
    /\ calls = << >>
    /\ reads = << >>
    /\ ConcIdle
    /\ CurryIdle

\* wsgi_handler calls request_handler(Request(environ));
\* adapter = _url_map.bind_to_environ(request.environ)
Begin(t, r) ==
    /\ pc[t] = "idle"
    /\ pc' = [pc EXCEPT ![t] = "match"]
    /\ req' = [req EXCEPT ![t] = r]
    /\ map0' = [map0 EXCEPT ![t] = url_map]
    /\ UNCHANGED <<frame, resp, restVars, curryVars>>

\* f, values = adapter.match()
Match(t) ==
    /\ pc[t] = "match"
    /\ LET m == match(url_map, req[t].method, req[t].path)
       IN  IF m.kind = "ok"
           THEN /\ frame' = [frame EXCEPT ![FrameOf(t)] =
                                [f |-> m.endpoint, values |-> m.values,
                                 response_body |-> PyNone]]
                /\ pc' = [pc EXCEPT ![t] = "read"]
                /\ UNCHANGED resp
           ELSE /\ resp' = [resp EXCEPT ![t] = except_clauses(m.exc)]
                /\ pc' = [pc EXCEPT ![t] = "done"]
                /\ UNCHANGED frame
    /\ UNCHANGED <<req, map0, restVars, curryVars>>

\* values['request_body'] = '' or request_handle.read(request.content_length)
Read(t) ==
    /\ pc[t] = "read"
    /\ frame' = [frame EXCEPT ![FrameOf(t)].values =
                    SetItem(@, "request_body", ReadBody(req[t]).body)]
    /\ pc' = [pc EXCEPT ![t] = "call"]
    /\ UNCHANGED <<req, resp, map0, restVars, curryVars>>

\* response_body = f(**values)
Call(t) ==
    /\ pc[t] = "call"
    /\ LET out == Apply(frame[FrameOf(t)].f, frame[FrameOf(t)].values)
       IN  IF out.kind = "return"
           THEN /\ frame' = [frame EXCEPT ![FrameOf(t)].response_body = out.value]
                /\ pc' = [pc EXCEPT ![t] = "respond"]
                /\ UNCHANGED resp
           ELSE /\ resp' = [resp EXCEPT ![t] = except_clauses(out.exc)]
                /\ pc' = [pc EXCEPT ![t] = "done"]
                /\ frame' = [frame EXCEPT ![FrameOf(t)] = NoFrame]
    /\ UNCHANGED <<req, map0, restVars, curryVars>>

\* if not response_body: response_body = ""
\* return Response(response_body, status=200)
Respond(t) ==
    /\ pc[t] = "respond"
    /\ resp' = [resp EXCEPT ![t] =
                   Response(ResponseBody(frame[FrameOf(t)].response_body), 200)]
    /\ frame' = [frame EXCEPT ![FrameOf(t)] = NoFrame]
    /\ pc' = [pc EXCEPT ![t] = "done"]
    /\ UNCHANGED <<req, map0, restVars, curryVars>>

\* wsgi_handler hands the response to the server; the thread takes the next
\* request.
Return(t) ==
    /\ pc[t] = "done"
    /\ pc' = [pc EXCEPT ![t] = "idle"]
    /\ req' = [req EXCEPT ![t] = NoRequest]
    /\ resp' = [resp EXCEPT ![t] = NoResult]
    /\ map0' = [map0 EXCEPT ![t] = << >>]
    /\ UNCHANGED <<frame, restVars, curryVars>>

\* rest_call applied while requests are served: nothing in the module prevents it.
LateRegister ==
    /\ Len(url_map) < Len(ServedMap) + MaxLate
    /\ \E rule \in LateRoutes : rest_call(rule.method, rule.path, rule.endpoint)

Accept == \E t \in Threads : \E r \in ConcRequests : Begin(t, r)

Step == \E t \in Threads : Match(t) \/ Read(t) \/ Call(t) \/ Respond(t) \/ Return(t)

NextConc == Accept \/ Step \/ LateRegister

SpecConc == InitConc /\ [][NextConc]_vars

\* An invocation that has returned while the registry stayed as it was when the
\* invocation began gave what the same request gives when dispatched alone.
AsAlone ==
    \A t \in Threads :
        (pc[t] = "done" /\ map0[t] = url_map) =>
            resp[t] = request_handler(url_map, req[t]).result

\* A step of an invocation leaves the registry and the local variables of the
\* other invocations as they were.
OwnStateOnly ==
    \A t \in Threads :
        pc'[t] # pc[t] =>
            /\ url_map' = url_map
            /\ \A u \in Threads \ {t} : frame'[u] = frame[u]

\* C9: with the registry fixed, every interleaving of concurrent dispatches gives
\* each request the response it gets alone; a dispatch only reads the registry,
\* and no invocation's data is held where another invocation writes.
C9_Isolation == []AsAlone /\ [][OwnStateOnly]_vars

C9_Witness ==
    /\ pc[1] = "call"
    /\ pc[2] = "respond"
    /\ frame[1].f = "some_error"
    /\ frame[2].f = "func"
    /\ map0[1] = url_map
    /\ map0[2] = url_map

(***************************************************************************)
(* The currying specification: curry is applied to a function and the      *)
(* object it gives back is called, again and again, with positional        *)
(* arguments.                                                              *)
(***************************************************************************)
MaxArity == 3       \* positional parameters of the function handed to curry
MaxCalls == 3       \* calls made on the curried objects of one run

\* The positional arguments of the model; a parameter's default is 0.
ArgValues == {1, 2}

Functions ==
    UNION { { [nargs |-> a, ndefaults |-> d, defined |-> TRUE] : d \in 0..a } :
              a \in 0..MaxArity }

ArgLists == UNION { [1..k -> ArgValues] : k \in 0..MaxArity }

Required(f) == f.nargs - f.ndefaults

Value(v) == [kind |-> "value", n |-> 0, bound |-> << >>, value |-> v, exc |-> "-"]
TypeError == [kind |-> "raise", n |-> 0, bound |-> << >>, value |-> << >>,
              exc |-> "TypeError"]

\* f(*args): the value of f is the tuple of its parameters' values, the missing
\* trailing ones taking their defaults; a wrong number of arguments is a
\* TypeError.
CallFunction(f, args) ==
    IF Required(f) <= Len(args) /\ Len(args) <= f.nargs
    THEN Value(args \o [k \in 1..(f.nargs - Len(args)) |-> 0])
    ELSE TypeError

\* _curryN(n, f), f being partial(cfn, *bound): the wrapper it returns.
curryN(n, bound) ==
    [kind |-> "function", n |-> n, bound |-> bound, value |-> << >>, exc |-> "-"]

\* wrapper(*args): calls f when exactly n arguments come, else returns
\* _curryN(n - count, partial(f, *args)).
wrapper(w, f, args) ==
    IF Len(args) = w.n
    THEN CallFunction(f, w.bound \o args)
    ELSE curryN(w.n - Len(args), w.bound \o args)

\* curry(f): _curryN(len(args), f) when f has no defaults; with defaults the
\* code calls _curryN with one argument, which is a TypeError.
curry(f) ==
    IF f.ndefaults = 0
    THEN curryN(f.nargs, << >>)
    ELSE TypeError

InitCurry ==
    /\ url_map = << >>
    /\ request = NoRequest
    /\ result = NoResult
    /\ calls = << >>
    /\ reads = << >>
    /\ ConcIdle
    /\ CurryIdle

Curry(f) ==
    /\ cfn = NoFunction
    /\ cfn' = f
    /\ cur' = curry(f)
    /\ supplied' = << >>
    /\ UNCHANGED <<restVars, concVars>>

CallCurried(args) ==
    /\ cur.kind = "function"
    /\ Len(supplied) < MaxCalls
    /\ cur' = wrapper(cur, cfn, args)
    /\ supplied' = Append(supplied, args)
    /\ UNCHANGED <<cfn, restVars, concVars>>

NextCurry ==
    \/ \E f \in Functions : Curry(f)
    \/ \E args \in ArgLists : CallCurried(args)

SpecCurry == InitCurry /\ [][NextCurry]_vars

RECURSIVE Flatten(_)
Flatten(ss) == IF ss = << >> THEN << >> ELSE Head(ss) \o Flatten(Tail(ss))

\* The arguments supplied over the calls made so far never exceeded what the
\* function requires before the latest call.
WithinRequired(f) ==
    \A k \in 1..(Len(supplied) - 1) :
        Len(Flatten(SubSeq(supplied, 1, k))) < Required(f)

\* C10: for every function curry is given, with or without defaults: while fewer
\* arguments than it requires have been supplied the calls give back a function,
\* and once the required arguments have been supplied, over any sequence of
\* calls, the value is that of the function called once with all of them.
C10_CurryEquivalence ==
    cfn.defined =>
        LET all == Flatten(supplied)
        IN  /\ Len(all) < Required(cfn) => cur.kind = "function"
            /\ (supplied # << >> /\ WithinRequired(cfn) /\ Len(all) = Required(cfn)) =>
                  cur = CallFunction(cfn, all)

\* The same for the functions without defaults alone.
CurryWithoutDefaults ==
    (cfn.defined /\ cfn.ndefaults = 0) => C10_CurryEquivalence

====
